---- MODULE Spec2Model ----
(***************************************************************************)
(* A model of the METS/PREMIS extraction pipeline of ushanka:              *)
(*   archivematica/mets.py  METSFile, AdministrativeMetadata               *)
(*   fedora/fedora.py       METSSection, DisseminationInformationPackage,  *)
(*                          BornDigitalCompoundObject.process_dip, DIPPart *)
(* Text is a sequence of one-character strings, so that slicing, splitting *)
(* and substring search are computed the way the Python code computes them.*)
(***************************************************************************)
EXTENDS Integers, Sequences, FiniteSets, TLC

VARIABLES
    contents,   \* METSFile: the packaging document handed to the constructor
    mets,       \* METSFile: the object the constructor leaves (or its error)
    xmlDoc,     \* METSSection: the METS document on disk; in process_dip, the
                \* document the last METSSection was opened on
    hash,       \* METSSection: the identifier asked for
    section,    \* METSSection: the object the constructor leaves (or its error)
    tarball,    \* DIP: the archive found in <path>/DIP
    fs,         \* DIP: the extraction directory "processing" on disk
    dip,        \* DIP: the DisseminationInformationPackage object
    run,        \* DIP: where process_dip / the caller stands
    all_sections, \* AdministrativeMetadata: the sections given to the constructor
    record,     \* AdministrativeMetadata: the record the constructor leaves
    call,       \* AdministrativeMetadata: the last accessor called, its outcome
    original_metadata,  \* process_dip: the compound object's metadata dict
    job,        \* new(): the object being created and the step that comes next
    requests,   \* new(): the requests sent so far, with the status answered
    repository, \* new(): what the repository holds
    download,   \* download_package: the call and what it wrote and returned
    resource    \* link_digital_object: the call and the record posted back

vars == <<contents, mets, xmlDoc, hash, section, tarball, fs, dip, run,
          all_sections, record, call, original_metadata, job, requests,
          repository, download, resource>>

metsVars == <<contents, mets>>
sectionVars == <<xmlDoc, hash, section>>
dipVars == <<tarball, fs, dip, run, original_metadata>>
recordVars == <<all_sections, record, call>>
newVars == <<job, requests, repository>>
clientVars == <<download, resource>>

(***************************************************************************)
(* Bounds of the model.                                                    *)
(***************************************************************************)
MaxSections == 2    \* mets:amdSec elements in a document
MaxXmlData == 2     \* mets:xmlData sections in the document METSSection reads
MaxParts == 2       \* files in the objects directory of a package
MaxThumbs == 2      \* files in the thumbnails directory of a package
MaxOcr == 2         \* files in the OCRfiles directory of a package
MaxFiles == 3       \* mets:file elements in a document, over all its groups

(***************************************************************************)
(* Generic helpers.                                                        *)
(***************************************************************************)
SeqsUpTo(S, n) == UNION {[1..k -> S] : k \in 0..n}

\* An attribute or child element that may be missing: <<>> when it is, <<v>> when
\* it is there with value v.
Missing == <<>>

Some(v) == <<v>>

Has(o) == Len(o) = 1

Get(o) == o[1]

Min(a, b) == IF a <= b THEN a ELSE b

\* The sequences of distinct members of S, of length at most n: what a directory
\* listing can be.
Listings(S, n) ==
    {l \in SeqsUpTo(S, n) : \A i \in 1..Len(l) : \A j \in 1..Len(l) : i # j => l[i] # l[j]}

\* Python's "sub in text" for texts.
Contains(text, sub) ==
    \E i \in 0..(Len(text) - Len(sub)) : SubSeq(text, i + 1, i + Len(sub)) = sub

\* Python's text[:n].
Prefix(text, n) == SubSeq(text, 1, Min(n, Len(text)))

Repeat(c, n) == [i \in 1..n |-> c]

(***************************************************************************)
(* xmltodict.parse: a repeated child element becomes a list, a lone one a  *)
(* single mapping, and a child that does not occur is no key at all.       *)
(***************************************************************************)
XmlToDict(children) ==
    IF Len(children) = 0 THEN [kind |-> "absent"]
    ELSE IF Len(children) = 1 THEN [kind |-> "mapping", item |-> children[1]]
    ELSE [kind |-> "list", items |-> children]

(***************************************************************************)
(* int(text): the decimal value of a text of digits, ValueError otherwise. *)
(***************************************************************************)
Digits == <<"0", "1", "2", "3", "4", "5", "6", "7", "8", "9">>

IsDigit(c) == \E d \in 1..Len(Digits) : Digits[d] = c

DigitVal(c) == (CHOOSE d \in 1..Len(Digits) : Digits[d] = c) - 1

IsNumeric(text) ==
    /\ Len(text) > 0
    /\ \A i \in 1..Len(text) : IsDigit(text[i])

RECURSIVE ParseInt(_)
ParseInt(text) ==
    IF Len(text) = 0 THEN 0
    ELSE 10 * ParseInt(SubSeq(text, 1, Len(text) - 1)) + DigitVal(text[Len(text)])

\* str(n) for a natural number n
RECURSIVE Str(_)
Str(n) == IF n < 10 THEN <<Digits[n + 1]>> ELSE Str(n \div 10) \o <<Digits[(n % 10) + 1]>>

(***************************************************************************)
(* str.split("/")[-1]: the text after the last "/".                        *)
(***************************************************************************)
RECURSIVE LastSegment(_)
LastSegment(text) ==
    IF Len(text) = 0 THEN <<>>
    ELSE IF text[Len(text)] = "/" THEN <<>>
    ELSE Append(LastSegment(SubSeq(text, 1, Len(text) - 1)), text[Len(text)])

(***************************************************************************)
(* The packaging documents METSFile is given.  An amdSec carries its @ID   *)
(* and the text of premis:size (which may be missing); a mets:file carries *)
(* @ADMID and mets:FLocat/@xlink:href (either may be missing).             *)
(***************************************************************************)
AmdSections ==
    { [ID |-> "amdSec_1", size |-> Some(<<"7">>)],
      [ID |-> "amdSec_2", size |-> Some(<<"5", "1", "2">>)],
      [ID |-> "amdSec_2", size |-> Missing] }

FileEntries ==
    { [ADMID |-> Some("amdSec_1"), href |-> Some(<<"o", "/", "a">>)],
      [ADMID |-> Some("amdSec_2"), href |-> Some(<<"o", "/", "d", "/", "b">>)],
      [ADMID |-> Missing, href |-> Some(<<"o", "/", "c">>)],
      [ADMID |-> Some("amdSec_1"), href |-> Missing] }

Uses == {"original", "preservation"}

\* The @USE values of a document's file groups, in document order: at most as
\* many groups as there are values, and a value may repeat.
GroupUses == SeqsUpTo(Uses, Cardinality(Uses))

\* The ways to cut a run of n file entries into g consecutive groups.
Cuts(n, g) ==
    {c \in [1..n -> 1..g] : \A i \in 1..n : \A j \in 1..n : i <= j => c[i] <= c[j]}

FilesOfGroup(files, cut, k) ==
    SelectSeq([i \in 1..Len(files) |-> [e |-> files[i], g |-> cut[i]]],
              LAMBDA x : x.g = k)

Document(secs, uses, files, cut) ==
    [amdSec |-> secs,
     fileGrp |-> [k \in 1..Len(uses) |->
                    [USE |-> uses[k],
                     file |-> [i \in 1..Len(FilesOfGroup(files, cut, k)) |->
                                 FilesOfGroup(files, cut, k)[i].e]]]]

(***************************************************************************)
(* bitmath.Byte(bytes=n).best_prefix(): the NIST unit of magnitude         *)
(* int(log(n, 1024)); a count below one byte is rendered in bits and the   *)
(* largest unit the library has is EiB.                                    *)
(***************************************************************************)
Units == <<"Byte", "KiB", "MiB", "GiB", "TiB", "PiB", "EiB">>

RECURSIVE Log1024(_)
Log1024(n) == IF n < 1024 THEN 0 ELSE 1 + Log1024(n \div 1024)

BestPrefix(n) ==
    IF n < 1 THEN [unit |-> "Bit", bytes |-> n]
    ELSE IF Log1024(n) >= Len(Units) - 1 THEN [unit |-> Units[Len(Units)], bytes |-> n]
    ELSE [unit |-> Units[Log1024(n) + 1], bytes |-> n]

(***************************************************************************)
(* Iterating what xmltodict made of a repeated element: a list yields its  *)
(* mappings, a lone mapping yields its keys, which are strings.            *)
(***************************************************************************)
Iterate(rep, keys) ==
    IF rep.kind = "list" THEN [kind |-> "dicts", items |-> rep.items]
    ELSE [kind |-> "keys", items |-> keys]

Ok(v) == [err |-> "", val |-> v]

Raise(e) == [err |-> e, val |-> <<>>]

(***************************************************************************)
(* METSFile.__get_all_administrative_metadata                              *)
(***************************************************************************)
GetAllAdministrativeMetadata(c) ==
    LET rep == XmlToDict(c.amdSec) IN
    IF rep.kind = "absent" THEN Raise("KeyError")
    ELSE Ok(Iterate(rep, <<"@ID", "mets:techMD">>))

\* A lookup that keeps the last section of the identifier.
FindAdminMetadataLast(all, id) ==
    IF all.kind = "keys" THEN Raise("TypeError")
    ELSE LET hits == {i \in 1..Len(all.items) : all.items[i].ID = id} IN
         IF hits = {} THEN Ok(0)
         ELSE Ok(CHOOSE i \in hits : \A j \in hits : i >= j)

(***************************************************************************)
(* AdministrativeMetadata.__find_admin_metadata: the position of the first *)
(* section whose @ID is the record's id, 0 for Python's None.              *)
(***************************************************************************)
FindAdminMetadata(all, id) ==
    IF all.kind = "keys" THEN Raise("TypeError")
    ELSE LET hits == {i \in 1..Len(all.items) : all.items[i].ID = id} IN
         IF hits = {} THEN Ok(0)
         ELSE Ok(CHOOSE i \in hits : \A j \in hits : i <= j)

(***************************************************************************)
(* AdministrativeMetadata.__init__                                         *)
(***************************************************************************)
AdministrativeMetadata(amdid, name, path_to_file, all_data) ==
    LET found == FindAdminMetadata(all_data, amdid) IN
    IF found.err # "" THEN Raise(found.err)
    ELSE IF found.val = 0 THEN Raise("TypeError")
    ELSE LET sec == all_data.items[found.val] IN
         IF ~Has(sec.size) THEN Raise("KeyError")
         ELSE IF ~IsNumeric(Get(sec.size)) THEN Raise("ValueError")
         ELSE Ok([id |-> amdid,
                  name |-> name,
                  path |-> path_to_file,
                  ref |-> found.val,
                  original_metadata |-> sec,
                  size |-> Get(sec.size),
                  best_size |-> BestPrefix(ParseInt(Get(sec.size)))])

(***************************************************************************)
(* The body of the inner loop of METSFile.__find_original_files for one    *)
(* mets:file mapping: the record appended, nothing appended when a         *)
(* KeyError is caught, or the exception that leaves the loop.              *)
(***************************************************************************)
OneFile(filename, adm) ==
    IF ~Has(filename.ADMID) THEN Ok(<<>>)
    ELSE IF ~Has(filename.href) THEN Ok(<<>>)
    ELSE LET current == AdministrativeMetadata(Get(filename.ADMID),
                                               LastSegment(Get(filename.href)),
                                               Get(filename.href), adm) IN
         IF current.err = "KeyError" THEN Ok(<<>>)
         ELSE IF current.err # "" THEN Raise(current.err)
         ELSE Ok(<<current.val>>)

RECURSIVE FilesLoop(_, _, _, _)
FilesLoop(files, i, adm, acc) ==
    IF i > Len(files) THEN Ok(acc)
    ELSE LET one == OneFile(files[i], adm) IN
         IF one.err # "" THEN Raise(one.err)
         ELSE FilesLoop(files, i + 1, adm, acc \o one.val)

\* A pass that also collects the entries of a group of any other use, when the
\* group holds several.
OneGroupAnyUse(file_group, adm, acc) ==
    LET rep == XmlToDict(file_group.file) IN
    IF file_group.USE = "original" /\ rep.kind = "absent" THEN Raise("KeyError")
    ELSE IF file_group.USE = "original" /\ rep.kind = "mapping" THEN Raise("TypeError")
    ELSE IF rep.kind = "list" THEN FilesLoop(rep.items, 1, adm, acc)
    ELSE Ok(acc)

\* One pass of the outer loop: a file group.
OneGroup(file_group, adm, acc) ==
    IF file_group.USE = "original" THEN
        LET rep == XmlToDict(file_group.file) IN
        IF rep.kind = "absent" THEN Raise("KeyError")
        ELSE IF rep.kind = "mapping" THEN Raise("TypeError")
        ELSE FilesLoop(rep.items, 1, adm, acc)
    ELSE Ok(acc)

RECURSIVE GroupsLoop(_, _, _, _)
GroupsLoop(groups, k, adm, acc) ==
    IF k > Len(groups) THEN Ok(acc)
    ELSE LET one == OneGroup(groups[k], adm, acc) IN
         IF one.err # "" THEN Raise(one.err)
         ELSE GroupsLoop(groups, k + 1, adm, one.val)

(***************************************************************************)
(* METSFile.__find_original_files                                          *)
(***************************************************************************)
FindOriginalFiles(c, adm) ==
    LET rep == XmlToDict(c.fileGrp) IN
    IF rep.kind # "list" THEN Raise("TypeError")
    ELSE GroupsLoop(rep.items, 1, adm, <<>>)

RECURSIVE SumSizes(_)
SumSizes(records) ==
    IF Len(records) = 0 THEN 0
    ELSE ParseInt(Head(records).size) + SumSizes(Tail(records))

\* A total that leaves the first record out.
TotalSizeOmitsOne(original_files) ==
    IF Len(original_files) = 0 THEN 0 ELSE SumSizes(Tail(original_files))

TotalSize(original_files) == SumSizes(original_files)

NoMETSFile(state, error) ==
    [state |-> state, error |-> error,
     administrative_metadata |-> [kind |-> "dicts", items |-> <<>>],
     original_files |-> <<>>, total_size |-> 0,
     pretty_total_size |-> BestPrefix(0)]

(***************************************************************************)
(* METSFile.__init__: the object, or the exception construction raises.    *)
(***************************************************************************)
METSFile(c) ==
    LET adm == GetAllAdministrativeMetadata(c) IN
    IF adm.err # "" THEN NoMETSFile("raised", adm.err)
    ELSE LET originals == FindOriginalFiles(c, adm.val) IN
         IF originals.err # "" THEN NoMETSFile("raised", originals.err)
         ELSE [state |-> "constructed", error |-> "",
               administrative_metadata |-> adm.val,
               original_files |-> originals.val,
               total_size |-> TotalSize(originals.val),
               pretty_total_size |-> BestPrefix(TotalSize(originals.val))]

(***************************************************************************)
(* The METSFile specification: a document is chosen, then constructed.     *)
(***************************************************************************)
IdleSection == [state |-> "none", error |-> "", techmd |-> 0]

InitMets ==
    /\ \E secs \in SeqsUpTo(AmdSections, MaxSections) :
       \E uses \in GroupUses :
       \E files \in SeqsUpTo(FileEntries, MaxFiles) :
       \E cut \in Cuts(Len(files), Len(uses)) :
           contents = Document(secs, uses, files, cut)
    /\ mets = NoMETSFile("none", "")
    /\ xmlDoc = <<>>
    /\ hash = <<>>
    /\ section = IdleSection
    /\ tarball = <<>>
    /\ fs = <<>>
    /\ dip = <<>>
    /\ run = <<>>
    /\ all_sections = <<>>
    /\ record = <<>>
    /\ call = <<>>
    /\ original_metadata = <<>>
    /\ job = <<>>
    /\ requests = <<>>
    /\ repository = <<>>
    /\ download = <<>>
    /\ resource = <<>>

ConstructMETSFile ==
    /\ mets.state = "none"
    /\ mets' = METSFile(contents)
    /\ UNCHANGED <<contents, sectionVars, dipVars, recordVars, newVars, clientVars>>

NextMets == ConstructMETSFile

SpecMets == InitMets /\ [][NextMets]_vars

(***************************************************************************)
(* AdministrativeMetadata and its accessors.  A section carries, below     *)
(* premis:objectCharacteristics, premis:size, premis:format (with          *)
(* premis:formatDesignation and premis:formatRegistry) and premis:fixity;  *)
(* each of them may be missing.                                            *)
(***************************************************************************)
PronomUrl ==
    <<"h", "t", "t", "p", ":", "/", "/", "n", "a", "t", "i", "o", "n", "a", "l",
      "a", "r", "c", "h", "i", "v", "e", "s", ".", "g", "o", "v", ".", "u", "k",
      "/", "P", "R", "O", "N", "O", "M", "/">>

Pronom == <<"P", "R", "O", "N", "O", "M">>

RegistryNames ==
    { Pronom, <<"p", "r", "o", "n", "o", "m">>, <<"P", "R", "O", "N", "O", "M", " ">>, <<"D", "L", "C">> }

RegistryKeys == { <<"f", "m", "t", "/", "4", "3">>, <<"x">> }

FormatRegistries ==
    {Missing} \cup {Some([formatRegistryName |-> n, formatRegistryKey |-> k]) :
                       n \in RegistryNames, k \in RegistryKeys}

FormatDesignations ==
    { Missing,
      Some([formatName |-> <<"J", "P", "E", "G">>, formatVersion |-> Some(<<"1">>)]),
      Some([formatName |-> <<"J", "P", "E", "G">>, formatVersion |-> Missing]) }

Formats ==
    {Missing} \cup {Some([formatDesignation |-> d, formatRegistry |-> r]) :
                       d \in FormatDesignations, r \in FormatRegistries}

Fixities ==
    { Missing,
      Some([messageDigestAlgorithm |-> <<"s", "h", "a", "2", "5", "6">>, messageDigest |-> Some(<<"a", "b">>)]),
      Some([messageDigestAlgorithm |-> <<"s", "h", "a", "2", "5", "6">>, messageDigest |-> Missing]) }

RecordSections ==
    {[ID |-> "amdSec_1", size |-> s, format |-> f, fixity |-> x] :
        s \in {Some(<<"7">>), Missing}, f \in Formats, x \in Fixities}

\* An accessor that answers a pair of empty texts when the element is missing.
GetChecksumOrDefault(self) ==
    IF ~Has(self.original_metadata.fixity) THEN Ok(<<<<>>, <<>>>>)
    ELSE LET fixity == Get(self.original_metadata.fixity) IN
         IF ~Has(fixity.messageDigest) THEN Ok(<<fixity.messageDigestAlgorithm, <<>>>>)
         ELSE Ok(<<fixity.messageDigestAlgorithm, Get(fixity.messageDigest)>>)

\* A link made for whatever registry the section names.
GetPronomLinkAnyRegistry(format_registry) ==
    IF format_registry.err # "" THEN Raise(format_registry.err)
    ELSE Ok(PronomUrl \o format_registry.val[2])

\* AdministrativeMetadata.get_format_registry
GetFormatRegistry(self) ==
    IF ~Has(self.original_metadata.format) THEN Raise("KeyError")
    ELSE LET format == Get(self.original_metadata.format) IN
         IF ~Has(format.formatRegistry) THEN Raise("KeyError")
         ELSE Ok(<<Get(format.formatRegistry).formatRegistryName,
                   Get(format.formatRegistry).formatRegistryKey>>)

\* AdministrativeMetadata.get_format_designation
GetFormatDesignation(self) ==
    IF ~Has(self.original_metadata.format) THEN Raise("KeyError")
    ELSE LET format == Get(self.original_metadata.format) IN
         IF ~Has(format.formatDesignation) THEN Raise("KeyError")
         ELSE IF ~Has(Get(format.formatDesignation).formatVersion) THEN Raise("KeyError")
         ELSE Ok(<<Get(format.formatDesignation).formatName,
                   Get(Get(format.formatDesignation).formatVersion)>>)

\* AdministrativeMetadata.get_checksum
GetChecksum(self) ==
    IF ~Has(self.original_metadata.fixity) THEN Raise("KeyError")
    ELSE LET fixity == Get(self.original_metadata.fixity) IN
         IF ~Has(fixity.messageDigest) THEN Raise("KeyError")
         ELSE Ok(<<fixity.messageDigestAlgorithm, Get(fixity.messageDigest)>>)

\* AdministrativeMetadata.get_pronom_link, given what get_format_registry
\* answered.
GetPronomLink(format_registry) ==
    IF format_registry.err # "" THEN Raise(format_registry.err)
    ELSE IF format_registry.val[1] = Pronom
         THEN Ok(PronomUrl \o format_registry.val[2])
         ELSE Ok(<<>>)

(***************************************************************************)
(* The record specification: a record is constructed for the section with  *)
(* its id, then its holder calls its accessors in any order.               *)
(***************************************************************************)
NoRecord(state, error) == [state |-> state, error |-> error, self |-> <<>>]

Accessed(op, outcome) == [op |-> op, err |-> outcome.err, val |-> outcome.val]

InitRecord ==
    /\ \E s \in RecordSections : all_sections = [kind |-> "dicts", items |-> <<s>>]
    /\ record = NoRecord("none", "")
    /\ call = Accessed("none", Ok(<<>>))
    /\ contents = <<>>
    /\ mets = NoMETSFile("none", "")
    /\ xmlDoc = <<>>
    /\ hash = <<>>
    /\ section = IdleSection
    /\ tarball = <<>>
    /\ fs = <<>>
    /\ dip = <<>>
    /\ run = <<>>
    /\ original_metadata = <<>>
    /\ job = <<>>
    /\ requests = <<>>
    /\ repository = <<>>
    /\ download = <<>>
    /\ resource = <<>>

\* AdministrativeMetadata(amdid, name, path, all_data)
ConstructRecord ==
    /\ record.state = "none"
    /\ LET made == AdministrativeMetadata("amdSec_1", <<"a">>, <<"o", "/", "a">>,
                                          all_sections) IN
       record' = IF made.err # "" THEN NoRecord("raised", made.err)
                 ELSE [state |-> "constructed", error |-> "", self |-> made.val]
    /\ call' = Accessed("construct", Ok(<<>>))
    /\ UNCHANGED <<all_sections, metsVars, sectionVars, dipVars, newVars, clientVars>>

CallGetChecksum ==
    /\ record.state = "constructed"
    /\ call' = Accessed("get_checksum", GetChecksum(record.self))
    /\ UNCHANGED <<all_sections, record, metsVars, sectionVars, dipVars, newVars, clientVars>>

CallGetFormatDesignation ==
    /\ record.state = "constructed"
    /\ call' = Accessed("get_format_designation", GetFormatDesignation(record.self))
    /\ UNCHANGED <<all_sections, record, metsVars, sectionVars, dipVars, newVars, clientVars>>

CallGetFormatRegistry ==
    /\ record.state = "constructed"
    /\ call' = Accessed("get_format_registry", GetFormatRegistry(record.self))
    /\ UNCHANGED <<all_sections, record, metsVars, sectionVars, dipVars, newVars, clientVars>>

CallGetPronomLink ==
    /\ record.state = "constructed"
    /\ call' = Accessed("get_pronom_link", GetPronomLink(GetFormatRegistry(record.self)))
    /\ UNCHANGED <<all_sections, record, metsVars, sectionVars, dipVars, newVars, clientVars>>

NextRecord ==
    \/ ConstructRecord
    \/ CallGetChecksum
    \/ CallGetFormatDesignation
    \/ CallGetFormatRegistry
    \/ CallGetPronomLink

SpecRecord == InitRecord /\ [][NextRecord]_vars

(***************************************************************************)
(* METSSection.  The document is the file at the given path: it may be     *)
(* missing or not well-formed; when it parses it is a run of mets:xmlData  *)
(* sections, each with the texts of the premis:objectIdentifierValue       *)
(* elements below it.                                                      *)
(***************************************************************************)
Quote == "\""

Identifiers ==
    { <<"a", "b">>, <<"A", "b">>, <<"a", "b", " ">>, <<"a", "b", Quote>> }

XmlDataSections == {[ids |-> s] : s \in SUBSET Identifiers}

\* METSSection.__decode: open() and etree.parse()
Decode(file) ==
    IF file.state = "missing" THEN Raise("FileNotFoundError")
    ELSE IF file.state = "malformed" THEN Raise("XMLSyntaxError")
    ELSE Ok(file.xmlData)

(***************************************************************************)
(* The XPath of get_techmd puts the identifier between double quotes: the  *)
(* string literal ends at the first double quote, and what is left of an   *)
(* identifier that holds one is no XPath.                                  *)
(***************************************************************************)
XPathLiteral(text) ==
    IF \E i \in 1..Len(text) : text[i] = Quote THEN Raise("XPathEvalError")
    ELSE Ok(text)

\* A lookup that answers None when nothing matches.
GetTechmdOrNone(root, h) ==
    LET lit == XPathLiteral(h) IN
    IF lit.err # "" THEN Raise(lit.err)
    ELSE LET hits == {i \in 1..Len(root) : lit.val \in root[i].ids} IN
         IF hits = {} THEN Ok(0)
         ELSE Ok(CHOOSE i \in hits : \A j \in hits : i <= j)

(***************************************************************************)
(* METSSection.get_techmd: element [0] of the xmlData sections that have a *)
(* descendant objectIdentifierValue equal to the identifier, as a position *)
(* in the document.                                                        *)
(***************************************************************************)
GetTechmd(root, h) ==
    LET lit == XPathLiteral(h) IN
    IF lit.err # "" THEN Raise(lit.err)
    ELSE LET hits == {i \in 1..Len(root) : lit.val \in root[i].ids} IN
         IF hits = {} THEN Raise("IndexError")
         ELSE Ok(CHOOSE i \in hits : \A j \in hits : i <= j)

(***************************************************************************)
(* METSSection.__init__: the object, or the exception construction raises. *)
(***************************************************************************)
METSSection(file, h) ==
    LET root == Decode(file) IN
    IF root.err # "" THEN [state |-> "raised", error |-> root.err, techmd |-> 0]
    ELSE LET techmd == GetTechmd(root.val, h) IN
         IF techmd.err # "" THEN [state |-> "raised", error |-> techmd.err, techmd |-> 0]
         ELSE [state |-> "constructed", error |-> "", techmd |-> techmd.val]

InitSection ==
    /\ \/ \E secs \in SeqsUpTo(XmlDataSections, MaxXmlData) :
             xmlDoc = [state |-> "parsed", xmlData |-> secs]
       \/ xmlDoc = [state |-> "missing", xmlData |-> <<>>]
       \/ xmlDoc = [state |-> "malformed", xmlData |-> <<>>]
    /\ hash \in Identifiers
    /\ section = IdleSection
    /\ contents = <<>>
    /\ mets = NoMETSFile("none", "")
    /\ tarball = <<>>
    /\ fs = <<>>
    /\ dip = <<>>
    /\ run = <<>>
    /\ all_sections = <<>>
    /\ record = <<>>
    /\ call = <<>>
    /\ original_metadata = <<>>
    /\ job = <<>>
    /\ requests = <<>>
    /\ repository = <<>>
    /\ download = <<>>
    /\ resource = <<>>

ConstructMETSSection ==
    /\ section.state = "none"
    /\ section' = METSSection(xmlDoc, hash)
    /\ UNCHANGED <<xmlDoc, hash, metsVars, dipVars, recordVars, newVars, clientVars>>

NextSection == ConstructMETSSection

SpecSection == InitSection /\ [][NextSection]_vars

(***************************************************************************)
(* DisseminationInformationPackage.  A package is a tar archive with one   *)
(* top-level directory that holds the METS file and the directories        *)
(* objects, thumbnails and OCRfiles; any of these may be missing.  The     *)
(* extraction directory is "processing", relative to the working directory.*)
(***************************************************************************)
UuidLen == 36

Uuid1 == Repeat("a", UuidLen)

Uuid2 == Repeat("a", UuidLen - 1) \o <<"b">>

ObjectNames ==
    { Uuid1 \o <<"-", "x">>, Uuid2 \o <<"-", "y">>, <<"a">> }

ThumbNames ==
    { Uuid1 \o <<".", "j">>, <<"t">> \o Uuid1, Uuid1 \o <<"b">>,
      Uuid2 \o <<".", "j">>, <<"n">> }

OcrNames == { Uuid1 \o <<".", "t">>, Uuid2 \o <<".", "t">> }

METSName == <<"M", "E", "T", "S", ".", "x">>

ExtractLocation == <<"p", "r", "o", "c", "e", "s", "s", "i", "n", "g">>

PackageName == <<"p", "k", "g">>

ObjectsDir == <<"o", "b", "j", "e", "c", "t", "s">>

ThumbnailsDir == <<"t", "h", "u", "m", "b", "n", "a", "i", "l", "s">>

OcrDir == <<"O", "C", "R", "f", "i", "l", "e", "s">>

\* A directory of the package: its name and its files in listing order.
Dir(name, files) == [name |-> name, files |-> files]

\* The archive's top-level directory: its own files and its subdirectories.
Package(top, subdirs) == [name |-> PackageName, files |-> top, dirs |-> subdirs]

WholePackages ==
    { Package(<<METSName>>, <<Dir(ObjectsDir, parts), Dir(ThumbnailsDir, thumbs), Dir(OcrDir, ocrs)>>) :
        parts \in Listings(ObjectNames, MaxParts),
        thumbs \in Listings(ThumbNames, MaxThumbs),
        ocrs \in Listings(OcrNames, MaxOcr) }

\* Packages that lack the METS file or one of the three directories.
BrokenPackages ==
    { Package(<<>>, <<Dir(ObjectsDir, <<>>), Dir(ThumbnailsDir, <<>>), Dir(OcrDir, <<>>)>>),
      Package(<<METSName>>, <<Dir(ThumbnailsDir, <<>>), Dir(OcrDir, <<>>)>>),
      Package(<<METSName>>, <<Dir(ObjectsDir, <<>>), Dir(OcrDir, <<>>)>>),
      Package(<<METSName>>, <<Dir(ObjectsDir, <<>>), Dir(ThumbnailsDir, <<>>)>>) }

Tarballs ==
    {[kind |-> "tar", package |-> p] : p \in WholePackages \cup BrokenPackages}
    \cup {[kind |-> "corrupt", package |-> Package(<<>>, <<>>)]}

NoDirectory == [exists |-> FALSE, packages |-> <<>>]

\* The files of a directory after an archive was extracted over it: those that
\* were there stay (written over when the archive has them too), the others
\* of the archive are added.
MergeFiles(old, new) ==
    old \o SelectSeq(new, LAMBDA f : \A k \in 1..Len(old) : old[k] # f)

\* The same for the subdirectories of a directory.
MergeDirs(old, new) ==
    [k \in 1..Len(old) |->
        IF \E n \in 1..Len(new) : new[n].name = old[k].name
        THEN Dir(old[k].name,
                 MergeFiles(old[k].files,
                            new[CHOOSE n \in 1..Len(new) : new[n].name = old[k].name].files))
        ELSE old[k]]
    \o SelectSeq(new, LAMBDA d : \A k \in 1..Len(old) : old[k].name # d.name)

\* tarfile.extractall into the extraction directory: the package's directory
\* is created, or extracted over when a directory of its name is there already.
ExtractAll(disk, package) ==
    [exists |-> TRUE,
     packages |->
        IF \E k \in 1..Len(disk.packages) : disk.packages[k].name = package.name
        THEN [k \in 1..Len(disk.packages) |->
                IF disk.packages[k].name = package.name
                THEN [name |-> package.name,
                      files |-> MergeFiles(disk.packages[k].files, package.files),
                      dirs |-> MergeDirs(disk.packages[k].dirs, package.dirs)]
                ELSE disk.packages[k]]
        ELSE Append(disk.packages, package)]

\* shutil.rmtree
RmTree(disk) == IF disk.exists THEN Ok(NoDirectory) ELSE Raise("FileNotFoundError")

Join(path, name) == path \o <<"/">> \o name

RECURSIVE WalkDirs(_, _, _)
WalkDirs(path, dirs, i) ==
    IF i > Len(dirs) THEN <<>>
    ELSE <<[path |-> Join(path, dirs[i].name), dirs |-> <<>>, files |-> dirs[i].files]>>
         \o WalkDirs(path, dirs, i + 1)

RECURSIVE WalkPackages(_, _, _)
WalkPackages(path, packages, k) ==
    IF k > Len(packages) THEN <<>>
    ELSE <<[path |-> Join(path, packages[k].name),
            dirs |-> [i \in 1..Len(packages[k].dirs) |-> packages[k].dirs[i].name],
            files |-> packages[k].files]>>
         \o WalkDirs(Join(path, packages[k].name), packages[k].dirs, 1)
         \o WalkPackages(path, packages, k + 1)

\* [thing for thing in os.walk(extract_location)], top-down.
Walk(disk) ==
    IF ~disk.exists THEN <<>>
    ELSE <<[path |-> ExtractLocation,
            dirs |-> [k \in 1..Len(disk.packages) |-> disk.packages[k].name],
            files |-> <<>>]>>
         \o WalkPackages(ExtractLocation, disk.packages, 1)

\* [x for x in xs if test(x)][0], given the list the comprehension makes
First(matches) ==
    IF matches = <<>> THEN Raise("IndexError")
    ELSE Ok(Head(matches))

\* A loop that stops at the first name that matches.
RECURSIVE FirstMatchOnly(_, _, _, _)
FirstMatchOnly(uuid, names, i, found) ==
    IF i > Len(names) THEN found
    ELSE IF Contains(names[i], uuid) THEN Some(names[i])
    ELSE FirstMatchOnly(uuid, names, i + 1, found)

\* A loop that matches a name by its first characters only.
RECURSIVE PrefixMatch(_, _, _, _)
PrefixMatch(uuid, names, i, found) ==
    IF i > Len(names) THEN found
    ELSE PrefixMatch(uuid, names, i + 1,
                     IF Prefix(names[i], Len(uuid)) = uuid THEN Some(names[i]) ELSE found)

\* The loops of associate_parts over ocr_files and thumbnails: the value the
\* key holds after the loop, <<>> when the key was never set.
RECURSIVE LastMatch(_, _, _, _)
LastMatch(uuid, names, i, found) ==
    IF i > Len(names) THEN found
    ELSE LastMatch(uuid, names, i + 1,
                   IF Contains(names[i], uuid) THEN Some(names[i]) ELSE found)

(***************************************************************************)
(* DisseminationInformationPackage.associate_parts, for parts that are     *)
(* file names: one dict per part, the keys ocr_file and thumbnail present  *)
(* only when a name matched.                                               *)
(***************************************************************************)
AssociateParts(parts, ocr_files, thumbnails, dip_location) ==
    [p \in 1..Len(parts) |->
        [uuid |-> Prefix(parts[p], UuidLen),
         object |-> parts[p],
         location |-> dip_location,
         ocr_file |-> LastMatch(Prefix(parts[p], UuidLen), ocr_files, 1, Missing),
         thumbnail |-> LastMatch(Prefix(parts[p], UuidLen), thumbnails, 1, Missing)]]

NoDIP(state, error) ==
    [state |-> state, error |-> error, path |-> <<>>,
     dip_location |-> <<>>, name |-> <<>>, mets_location |-> <<>>,
     parts |-> <<>>, thumbnails |-> <<>>, ocr_files |-> <<>>]

HasObjects(thing) == Contains(thing.path, <<"/">> \o ObjectsDir)

HasThumbnails(thing) == Contains(thing.path, <<"/">> \o ThumbnailsDir)

HasOcr(thing) == Contains(thing.path, <<"/">> \o OcrDir)

IsMETS(file) == Contains(file, <<"M", "E", "T", "S">>)

(***************************************************************************)
(* DisseminationInformationPackage.__init__ after extract_package, on the  *)
(* extraction directory as it then is: the object, or the exception.       *)
(***************************************************************************)
Classify(tar, disk) ==
    LET walked == Walk(disk)
        objects == First(SelectSeq(walked, HasObjects))
        thumbs == First(SelectSeq(walked, HasThumbnails))
        ocrs == First(SelectSeq(walked, HasOcr))
    IN  IF Len(walked) < 2 THEN NoDIP("raised", "IndexError")
        ELSE IF Len(walked[1].dirs) = 0 THEN NoDIP("raised", "IndexError")
        ELSE IF First(SelectSeq(walked[2].files, IsMETS)).err # "" THEN NoDIP("raised", "IndexError")
        ELSE IF objects.err # "" THEN NoDIP("raised", "IndexError")
        ELSE IF thumbs.err # "" THEN NoDIP("raised", "IndexError")
        ELSE IF ocrs.err # "" THEN NoDIP("raised", "IndexError")
        ELSE [state |-> "constructed", error |-> "", path |-> tar,
              dip_location |-> walked[2].path,
              name |-> walked[1].dirs[1],
              mets_location |-> First(SelectSeq(walked[2].files, IsMETS)).val,
              parts |-> AssociateParts(objects.val.files, ocrs.val.files,
                                       thumbs.val.files, walked[2].path),
              thumbnails |-> thumbs.val.files,
              ocr_files |-> ocrs.val.files]

\* DisseminationInformationPackage.extract_package: the directory afterwards.
ExtractPackage(tar, disk) ==
    IF tar.kind = "corrupt" THEN Raise("ReadError")
    ELSE Ok(ExtractAll(disk, tar.package))

(***************************************************************************)
(* The package specification: an archive is chosen and a package object is *)
(* constructed from it; its holder then calls its methods and reads its    *)
(* attributes in any order.  run records the last call and its outcome.    *)
(***************************************************************************)
Attributes == {"parts", "thumbnails", "ocr_files", "mets_location", "dip_location"}

Called(op, err, val, removes) ==
    [op |-> op, err |-> err, val |-> val, removes |-> removes]

InitDip ==
    /\ tarball \in Tarballs
    /\ fs = NoDirectory
    /\ dip = NoDIP("none", "")
    /\ run = Called("none", "", <<>>, 0)
    /\ contents = <<>>
    /\ mets = NoMETSFile("none", "")
    /\ xmlDoc = <<>>
    /\ hash = <<>>
    /\ section = IdleSection
    /\ all_sections = <<>>
    /\ record = <<>>
    /\ call = <<>>
    /\ original_metadata = <<>>
    /\ job = <<>>
    /\ requests = <<>>
    /\ repository = <<>>
    /\ download = <<>>
    /\ resource = <<>>

\* DisseminationInformationPackage(path)
ConstructDIP ==
    /\ dip.state = "none"
    /\ LET extracted == ExtractPackage(tarball, fs) IN
       IF extracted.err # ""
       THEN /\ dip' = NoDIP("raised", extracted.err)
            /\ fs' = fs
       ELSE /\ dip' = Classify(tarball, extracted.val)
            /\ fs' = extracted.val
    /\ run' = Called("construct", dip'.error, <<>>, run.removes)
    /\ UNCHANGED <<tarball, metsVars, sectionVars, recordVars, original_metadata, newVars, clientVars>>

\* dip.extract_package()
CallExtractPackage ==
    /\ dip.state = "constructed"
    /\ fs' = ExtractPackage(dip.path, fs).val
    /\ run' = Called("extract_package", "", <<>>, run.removes)
    /\ UNCHANGED <<tarball, dip, metsVars, sectionVars, recordVars, original_metadata, newVars, clientVars>>

\* dip.associate_parts(): parts now holds dicts, and part[:36] of a dict raises.
CallAssociateParts ==
    /\ dip.state = "constructed"
    /\ run' = IF dip.parts = <<>>
              THEN Called("associate_parts", "", <<>>, run.removes)
              ELSE Called("associate_parts", "TypeError", <<>>, run.removes)
    /\ UNCHANGED <<tarball, fs, dip, metsVars, sectionVars, recordVars, original_metadata, newVars, clientVars>>

\* dip.remove_extracted_package()
CallRemoveExtractedPackage ==
    /\ dip.state = "constructed"
    /\ LET removed == RmTree(fs) IN
       /\ fs' = IF removed.err = "" THEN removed.val ELSE fs
       /\ run' = Called("remove_extracted_package", removed.err, <<>>,
                        Min(run.removes + 1, 2))
    /\ UNCHANGED <<tarball, dip, metsVars, sectionVars, recordVars, original_metadata, newVars, clientVars>>

\* dip.parts, dip.thumbnails, ...: an attribute read returns what was stored.
ReadAttribute ==
    /\ dip.state = "constructed"
    /\ \E attr \in Attributes :
          run' = Called("read", "", <<attr, dip[attr]>>, run.removes)
    /\ UNCHANGED <<tarball, fs, dip, metsVars, sectionVars, recordVars, original_metadata, newVars, clientVars>>

NextDip ==
    \/ ConstructDIP
    \/ CallExtractPackage
    \/ CallAssociateParts
    \/ CallRemoveExtractedPackage
    \/ ReadAttribute

SpecDip == InitDip /\ [][NextDip]_vars

(***************************************************************************)
(* BornDigitalCompoundObject.process_dip.  run.pc is where the call        *)
(* stands, run.i the sequence number of the part in hand, run.step the     *)
(* step of DIPPart.new that comes next, run.cleanups the calls made of     *)
(* remove_extracted_package.  The call ends "returned" or "raised".        *)
(***************************************************************************)
\* An order of the steps in which the MODS record is built before the technical
\* metadata is read.
PartStepsModsBeforeTechmd ==
    << "ingest", "add_to_collection", "assign_binary_content_model",
       "change_versioning", "make_part_of_compound_object",
       "make_sequence_of_compound_object", "add_mods_metadata",
       "do_techmd_things", "add_object_as_obj", "add_thumbnail", "add_ocr" >>

\* The steps of DIPPart.new, in order.
PartSteps ==
    << "ingest", "add_to_collection", "assign_binary_content_model",
       "change_versioning", "make_part_of_compound_object",
       "make_sequence_of_compound_object", "do_techmd_things",
       "add_mods_metadata", "add_object_as_obj", "add_thumbnail", "add_ocr" >>

\* DIPPart.__identify_thumbnail
IdentifyThumbnail(part_package) ==
    IF Has(part_package.thumbnail) THEN Get(part_package.thumbnail) ELSE <<>>

\* DIPPart.__identify_ocr: looks for the key "ocr", which associate_parts never
\* sets.
IdentifyOcr(part_package) == <<>>

\* The path __do_techmd_things gives to METSSection: a literal of the source.
TechmdPath ==
    << "d", "a", "t", "a", "/", "M", "E", "T", "S", "/", "M", "E", "T", "S",
       ".", "0", "a", "2", "f", "4", "2", "c", "d", "-", "e", "e", "d", "e",
       "-", "4", "7", "7", "d", "-", "8", "6", "a", "3", "-", "8", "a", "b",
       "8", "4", "9", "6", "2", "c", "8", "c", "7", ".", "x", "m", "l" >>

\* DIPPart.__do_techmd_things opens a METSSection: the path it is given and the
\* identifier it asks for.  The other steps open none.
OpenedSection(step, part_package) ==
    IF step = "do_techmd_things"
    THEN [doc |-> [state |-> "opened", path |-> TechmdPath], id |-> part_package.uuid]
    ELSE [doc |-> xmlDoc, id |-> hash]

\* dict[key] = value
Put(dict, key, value) ==
    [k \in DOMAIN dict \cup {key} |-> IF k = key THEN value ELSE dict[k]]

\* The descriptive metadata a compound object is given: a dict of texts, with
\* the six descriptive keys or without one of them.
DescriptiveKeys == {"title", "abstract", "date", "language", "publisher", "rights"}

DescriptiveMetadata ==
    { [k \in DescriptiveKeys |-> <<k, "0">>],
      [k \in DescriptiveKeys \ {"rights"} |-> <<k, "0">>] }

\* What METSSection reads for an identifier: get_original_path, get_size,
\* get_date_created; each a text of the section found for the identifier.
Techmd(field, id) == <<field>> \o id

\* Assignments that leave the date of the dict as it was.
TechmdAssignmentsWithoutDate(part_package) ==
    << <<"uuid", part_package.uuid>>,
       <<"original_path", Techmd("originalName", part_package.uuid)>>,
       <<"size", Techmd("size", part_package.uuid)>> >>

\* The assignments __do_techmd_things makes to the metadata dict, in order
\* (lines 774-777).
TechmdAssignments(part_package) ==
    << <<"uuid", part_package.uuid>>,
       <<"original_path", Techmd("originalName", part_package.uuid)>>,
       <<"size", Techmd("size", part_package.uuid)>>,
       <<"date", Techmd("dateCreatedByApplication", part_package.uuid)>> >>

\* The dict after the first n of a run of assignments.
RECURSIVE Assigned(_, _, _)
Assigned(dict, assignments, n) ==
    IF n = 0 THEN dict
    ELSE Put(Assigned(dict, assignments, n - 1), assignments[n][1], assignments[n][2])

\* The metadata dict after a step of DIPPart.new that went through.
MetadataAfter(step, dict, part_package) ==
    IF step = "do_techmd_things"
    THEN Assigned(dict, TechmdAssignments(part_package), Len(TechmdAssignments(part_package)))
    ELSE dict

\* The assignments a step may have made when it raises: get_size and
\* get_date_created are evaluated between the assignments and either may raise.
MadeBeforeRaising(step) ==
    IF step = "do_techmd_things" THEN {0, 2, 3} ELSE {0}

\* Whether a step sends a request or touches a file, and so can raise.
CanRaise(step, part_package) ==
    IF step = "add_thumbnail" THEN IdentifyThumbnail(part_package) # <<>>
    ELSE IF step = "add_ocr" THEN IdentifyOcr(part_package) # <<>>
    ELSE TRUE

\* What <path>/DIP holds: no such directory, an empty directory, or an archive.
DipDirectories ==
    Tarballs \cup {[kind |-> "nodir", package |-> Package(<<>>, <<>>)],
                   [kind |-> "empty", package |-> Package(<<>>, <<>>)]}

At(pc, i, step, cleanups, error) ==
    [pc |-> pc, i |-> i, step |-> step, cleanups |-> cleanups, error |-> error]

InitProcess ==
    /\ tarball \in DipDirectories
    /\ fs = NoDirectory
    /\ dip = NoDIP("none", "")
    /\ run = At("start", 0, 0, 0, "")
    /\ contents = <<>>
    /\ mets = NoMETSFile("none", "")
    /\ xmlDoc = <<>>
    /\ hash = <<>>
    /\ section = IdleSection
    /\ all_sections = <<>>
    /\ record = <<>>
    /\ call = <<>>
    /\ original_metadata \in DescriptiveMetadata
    /\ job = <<>>
    /\ requests = <<>>
    /\ repository = <<>>
    /\ download = <<>>
    /\ resource = <<>>

\* Lines 541-548: the archive in <path>/DIP is opened as a package.
OpenPackage ==
    /\ run.pc = "start"
    /\ IF tarball.kind = "nodir"
       THEN /\ run' = At("raised", 0, 0, run.cleanups, "Exception")
            /\ UNCHANGED <<fs, dip>>
       ELSE IF tarball.kind = "empty"
       THEN /\ run' = At("raised", 0, 0, run.cleanups, "IndexError")
            /\ UNCHANGED <<fs, dip>>
       ELSE LET extracted == ExtractPackage(tarball, fs) IN
            IF extracted.err # ""
            THEN /\ run' = At("raised", 0, 0, run.cleanups, extracted.err)
                 /\ UNCHANGED <<fs, dip>>
            ELSE /\ fs' = extracted.val
                 /\ dip' = Classify(tarball, extracted.val)
                 /\ run' = IF dip'.state = "raised"
                           THEN At("raised", 0, 0, run.cleanups, dip'.error)
                           ELSE At("loop", 1, 0, run.cleanups, "")
    /\ UNCHANGED <<tarball, metsVars, sectionVars, recordVars, original_metadata, newVars, clientVars>>

\* Lines 549-563: the head of the loop over dip.parts; new_metadata is the
\* compound object's own dict under another name, its title is set to the
\* part's file name and a DIPPart is built on it; or the loop is left.
NextPart ==
    /\ run.pc = "loop"
    /\ run' = IF run.i <= Len(dip.parts)
              THEN At("new", run.i, 1, run.cleanups, "")
              ELSE At("remove", run.i, 0, run.cleanups, "")
    /\ original_metadata' =
          IF run.i <= Len(dip.parts)
          THEN Put(original_metadata, "title", dip.parts[run.i].object)
          ELSE original_metadata
    /\ UNCHANGED <<tarball, fs, dip, metsVars, sectionVars, recordVars, newVars, clientVars>>

\* A sequence number written one less than it is.
SequenceLiteralFromZero(sequence_number) == Str(sequence_number - 1)

\* str(self.sequence_number)
SequenceLiteral(sequence_number) == Str(sequence_number)

\* The pid process_dip is given: the compound object's.
ParentPid == <<"t", "e", "s", "t", ":", "1">>

\* text.replace(":", "_")
ReplaceColon(text) == [k \in 1..Len(text) |-> IF text[k] = ":" THEN "_" ELSE text[k]]

\* A request of a part that the repository answered as expected: the part, the
\* step, what it names (a predicate, a datastream) and the value it carries
\* (the object of a relationship, the path of the file uploaded).
PartRequest(i, step, what, value) ==
    [part |-> i, step |-> step, what |-> what, value |-> value]

\* The requests a step of DIPPart.new has sent when it returns, for part i.
StepRequests(step, part_package, i) ==
    IF step = "make_part_of_compound_object"
    THEN <<PartRequest(i, step, <<"i", "s", "C", "o", "n", "s", "t", "i", "t", "u", "e", "n", "t", "O", "f">>, <<"i", "n", "f", "o", ":", "f", "e", "d", "o", "r", "a", "/">> \o ParentPid)>>
    ELSE IF step = "make_sequence_of_compound_object"
    THEN <<PartRequest(i, step, <<"i", "s", "S", "e", "q", "u", "e", "n", "c", "e", "N", "u", "m", "b", "e", "r", "O", "f">> \o ReplaceColon(ParentPid), SequenceLiteral(i))>>
    ELSE IF step = "add_object_as_obj"
    THEN <<PartRequest(i, step, <<"OBJ">>,
                       Join(Join(part_package.location, ObjectsDir), part_package.object))>>
    ELSE IF step = "add_thumbnail"
    THEN (IF IdentifyThumbnail(part_package) # <<>>
          THEN <<PartRequest(i, step, <<"TN">>,
                             Join(Join(part_package.location, ThumbnailsDir),
                                  IdentifyThumbnail(part_package)))>>
          ELSE <<>>)
    ELSE IF step = "add_ocr"
    THEN (IF IdentifyOcr(part_package) # <<>>
          THEN <<PartRequest(i, step, <<"OCR">>,
                             Join(Join(part_package.location, OcrDir),
                                  IdentifyOcr(part_package)))>>
          ELSE <<>>)
    ELSE <<PartRequest(i, step, <<>>, <<>>)>>

\* A loop that turns to the next part as soon as a step of the part in hand has
\* gone through.
PartStepDoneTurnsToNextPart ==
    /\ run.pc = "new"
    /\ run' = At("loop", run.i + 1, 0, run.cleanups, "")
    /\ UNCHANGED <<tarball, fs, dip, metsVars, sectionVars, recordVars, original_metadata, newVars, clientVars>>

\* A step of DIPPart.new goes through; after the last one i is incremented.
PartStepDone ==
    /\ run.pc = "new"
    /\ run' = IF run.step < Len(PartSteps)
              THEN At("new", run.i, run.step + 1, run.cleanups, "")
              ELSE At("loop", run.i + 1, 0, run.cleanups, "")
    /\ xmlDoc' = OpenedSection(PartSteps[run.step], dip.parts[run.i]).doc
    /\ hash' = OpenedSection(PartSteps[run.step], dip.parts[run.i]).id
    /\ original_metadata' = MetadataAfter(PartSteps[run.step], original_metadata,
                                          dip.parts[run.i])
    /\ requests' = requests \o StepRequests(PartSteps[run.step], dip.parts[run.i], run.i)
    /\ UNCHANGED <<tarball, fs, dip, metsVars, section, recordVars, job, repository,
                   clientVars>>

\* A step of DIPPart.new raises (the repository answers with another status, a
\* file is not there): nothing catches it, and process_dip is left.
PartStepRaises ==
    /\ run.pc = "new"
    /\ CanRaise(PartSteps[run.step], dip.parts[run.i])
    /\ run' = At("raised", run.i, run.step, run.cleanups, "Exception")
    /\ \E n \in MadeBeforeRaising(PartSteps[run.step]) :
          original_metadata' = Assigned(original_metadata,
                                        TechmdAssignments(dip.parts[run.i]), n)
    /\ UNCHANGED <<tarball, fs, dip, metsVars, sectionVars, recordVars, newVars, clientVars>>

\* Lines 565-566: dip.remove_extracted_package() and return.
RemoveAndReturn ==
    /\ run.pc = "remove"
    /\ LET removed == RmTree(fs) IN
       /\ fs' = IF removed.err = "" THEN removed.val ELSE fs
       /\ run' = At(IF removed.err = "" THEN "returned" ELSE "raised",
                    run.i, 0, run.cleanups + 1, removed.err)
    /\ UNCHANGED <<tarball, dip, metsVars, sectionVars, recordVars, original_metadata, newVars, clientVars>>

NextProcess ==
    \/ OpenPackage
    \/ NextPart
    \/ PartStepDone
    \/ PartStepRaises
    \/ RemoveAndReturn

SpecProcess == InitProcess /\ [][NextProcess]_vars

(***************************************************************************)
(* What the document itself says, read off without the loops above.        *)
(***************************************************************************)
RECURSIVE EntriesOfUse(_, _, _)
EntriesOfUse(c, use, k) ==
    IF k > Len(c.fileGrp) THEN <<>>
    ELSE (IF c.fileGrp[k].USE = use THEN c.fileGrp[k].file ELSE <<>>)
         \o EntriesOfUse(c, use, k + 1)

OriginalEntries(c) == EntriesOfUse(c, "original", 1)

HasSectionFor(c, e) ==
    /\ Has(e.ADMID)
    /\ \E i \in 1..Len(c.amdSec) : c.amdSec[i].ID = Get(e.ADMID)

FirstSectionFor(c, e) ==
    c.amdSec[CHOOSE i \in 1..Len(c.amdSec) :
                /\ c.amdSec[i].ID = Get(e.ADMID)
                /\ \A j \in 1..(i - 1) : c.amdSec[j].ID # Get(e.ADMID)]

\* The entry has both references and its section states a size.
Described(c, e) ==
    /\ Has(e.ADMID)
    /\ Has(e.href)
    /\ HasSectionFor(c, e)
    /\ Has(FirstSectionFor(c, e).size)

SizeByIndex(records, n) ==
    LET f[i \in 0..n] == IF i = 0 THEN 0 ELSE f[i - 1] + ParseInt(records[i].size)
    IN f[n]

\* C1: whenever METSFile accepts a document, total_size is the exact integer sum
\* of int(record.size) over the records of original_files, each counted once,
\* and 0 when there are none.
C1_TotalSizeIsSum ==
    mets.state = "constructed" =>
        /\ mets.total_size \in Nat
        /\ mets.total_size = SizeByIndex(mets.original_files, Len(mets.original_files))
        /\ (mets.original_files = <<>> => mets.total_size = 0)

C1_Witness ==
    /\ mets.state = "constructed"
    /\ Len(mets.original_files) = 2
    /\ mets.original_files[1].size # mets.original_files[2].size
    /\ mets.total_size = 519

\* C4 as claimed: an entry of an "original" group that lacks @ADMID or the href
\* is left out without raising, and every other entry of the group that has both
\* and a matching section is in original_files, in document order.
C4_SkipsOnlyEntriesMissingAReference ==
    LET kept == SelectSeq(OriginalEntries(contents),
                          LAMBDA e : Has(e.ADMID) /\ Has(e.href) /\ HasSectionFor(contents, e))
    IN mets.state = "constructed" =>
        /\ Len(mets.original_files) = Len(kept)
        /\ \A i \in 1..Len(kept) :
              /\ mets.original_files[i].id = Get(kept[i].ADMID)
              /\ mets.original_files[i].path = Get(kept[i].href)

\* C5: original_files holds records only for entries of file groups whose @USE
\* is "original" (those with both references whose section states a size), in
\* document order, and total_size counts the sizes of those entries alone.
C5_OnlyOriginalGroups ==
    LET kept == SelectSeq(OriginalEntries(contents), LAMBDA e : Described(contents, e))
        sizes == [i \in 1..Len(kept) |-> [size |-> Get(FirstSectionFor(contents, kept[i]).size)]]
    IN mets.state = "constructed" =>
        /\ Len(mets.original_files) = Len(kept)
        /\ \A i \in 1..Len(kept) :
              /\ mets.original_files[i].id = Get(kept[i].ADMID)
              /\ mets.original_files[i].path = Get(kept[i].href)
        /\ mets.total_size = SizeByIndex(sizes, Len(sizes))

C5_Witness ==
    /\ mets.state = "constructed"
    /\ Len(mets.original_files) = 2
    /\ \E k \in 1..Len(contents.fileGrp) :
          /\ contents.fileGrp[k].USE # "original"
          /\ \E i \in 1..Len(contents.fileGrp[k].file) :
                Described(contents, contents.fileGrp[k].file[i])

\* The sections of the document that hold an objectIdentifierValue equal, as a
\* text, to the identifier asked for.
Matching == {i \in 1..Len(xmlDoc.xmlData) : hash \in xmlDoc.xmlData[i].ids}

\* C2 as claimed: the lookup selects by exact string equality and, when
\* several sections hold the identifier, returns the first in document order.
C2_FirstExactMatch ==
    (section.state # "none" /\ Matching # {}) =>
        /\ section.state = "constructed"
        /\ section.techmd \in Matching
        /\ \A j \in Matching : section.techmd <= j

FilesIn(name) ==
    LET found == SelectSeq(tarball.package.dirs, LAMBDA d : d.name = name)
    IN IF found = <<>> THEN <<>> ELSE found[1].files

Holding(names, uuid) == {i \in 1..Len(names) : Contains(names[i], uuid)}

\* What C6 asks of one key of one part, against the names of one directory.
SubstringAssociation(uuid, key, names) ==
    /\ Has(key) => \E i \in Holding(names, uuid) : Get(key) = names[i]
    /\ \A i \in 1..Len(names) :
          Holding(names, uuid) = {i} => key = Some(names[i])
    /\ Holding(names, uuid) = {} => ~Has(key)

\* C6: after associate_parts a part's thumbnail is a file of the thumbnails
\* directory that holds the part's identifier (the first 36 characters of the
\* object's file name) as a substring; a part whose identifier occurs in exactly
\* one thumbnail name has that thumbnail, and one whose identifier occurs in none
\* has no thumbnail key.  The same for ocr_file and the OCRfiles directory.
C6_AssociatedBySubstring ==
    dip.state = "constructed" =>
        /\ Len(dip.parts) = Len(FilesIn(ObjectsDir))
        /\ \A p \in 1..Len(dip.parts) :
              /\ dip.parts[p].object = FilesIn(ObjectsDir)[p]
              /\ dip.parts[p].uuid = SubSeq(dip.parts[p].object, 1,
                                            Min(UuidLen, Len(dip.parts[p].object)))
              /\ SubstringAssociation(dip.parts[p].uuid, dip.parts[p].thumbnail,
                                      FilesIn(ThumbnailsDir))
              /\ SubstringAssociation(dip.parts[p].uuid, dip.parts[p].ocr_file,
                                      FilesIn(OcrDir))

C6_Witness ==
    /\ dip.state = "constructed"
    /\ Len(dip.parts) = 2
    /\ Len(dip.parts[1].uuid) = UuidLen
    /\ dip.parts[1].thumbnail = Some(<<"t">> \o Uuid1)
    /\ Has(dip.parts[1].ocr_file)
    /\ Len(dip.parts[2].uuid) = UuidLen
    /\ ~Has(dip.parts[2].thumbnail)
    /\ Len(dip.thumbnails) = 2

\* What C7 asks of one key of one part: with several names that hold the
\* identifier, the key is the last of them in the order of the list.
LastOfSeveral(uuid, key, names) ==
    Cardinality(Holding(names, uuid)) >= 2 =>
        /\ Has(key)
        /\ \E i \in Holding(names, uuid) :
              /\ \A j \in Holding(names, uuid) : j <= i
              /\ Get(key) = names[i]

\* C7: when several thumbnail (or OCR) names hold a part's identifier, the part
\* is associated with the last of them in the order of the thumbnails (or
\* ocr_files) list.
C7_LastMatchWins ==
    dip.state = "constructed" =>
        \A p \in 1..Len(dip.parts) :
            /\ LastOfSeveral(dip.parts[p].uuid, dip.parts[p].thumbnail, dip.thumbnails)
            /\ LastOfSeveral(dip.parts[p].uuid, dip.parts[p].ocr_file, dip.ocr_files)

C7_Witness ==
    /\ dip.state = "constructed"
    /\ \E p \in 1..Len(dip.parts) :
          /\ Len(dip.parts[p].uuid) = UuidLen
          /\ Cardinality(Holding(dip.thumbnails, dip.parts[p].uuid)) = 2
          /\ dip.parts[p].thumbnail = Some(dip.thumbnails[2])
          /\ dip.thumbnails[1] # dip.thumbnails[2]
    /\ \E q \in 1..Len(dip.parts) :
          /\ Cardinality(Holding(dip.ocr_files, dip.parts[q].uuid)) = 2
          /\ dip.parts[q].ocr_file = Some(dip.ocr_files[2])

\* C8 as claimed: on every path of process_dip for a package that was
\* extracted, the error paths included, remove_extracted_package is called
\* exactly once, and only after every part has been processed.
C8_CleanupExactlyOnce ==
    /\ (run.pc \in {"returned", "raised"} /\ dip.state = "constructed") => run.cleanups = 1
    /\ run.cleanups >= 1 => run.i > Len(dip.parts)

\* C9 as claimed: remove_extracted_package called a second time, or when the
\* extraction directory does not exist, does not raise.
C9_CleanupIsIdempotent ==
    run.op = "remove_extracted_package" => run.err = ""

\* C10 as claimed: once remove_extracted_package has been called, a read of
\* parts, thumbnails, ocr_files, mets_location or dip_location fails with an
\* error.
C10_ReadAfterCleanupFails ==
    (run.op = "read" /\ run.removes >= 1) => run.err # ""

\* C11 as claimed: a package whose constructor returned is extracted and
\* classified (parts, thumbnails, ocr_files and mets_location are set), and
\* once remove_extracted_package has removed the extraction directory no
\* public operation brings the directory back.
C11_NeverLeavesCleaned ==
    dip.state = "constructed" =>
        /\ dip.mets_location # <<>>
        /\ \A p \in 1..Len(dip.parts) : dip.parts[p].location = dip.dip_location
        /\ (run.removes = 0 => fs.exists)
        /\ (run.removes >= 1 => ~fs.exists)

\* C12: process_dip takes the parts one after another in the order of
\* dip.parts: the steps of DIPPart.new for part i are taken in their order and
\* all of them before the first step for part i + 1, no part is taken twice or
\* passed over, and the extraction directory is there as long as a part is
\* being processed.
C12_PartsOneAfterAnother ==
    [][ /\ run.pc = "new" =>
            /\ fs.exists
            /\ run.i \in 1..Len(dip.parts)
            /\ \/ run'.pc = "new" /\ run'.i = run.i /\ run'.step = run.step + 1
               \/ run'.pc = "loop" /\ run'.i = run.i + 1 /\ run.step = Len(PartSteps)
               \/ run'.pc = "raised" /\ run'.i = run.i
        /\ run.pc = "loop" =>
            \/ run'.pc = "new" /\ run'.i = run.i /\ run'.step = 1
            \/ run'.pc = "remove" /\ run.i = Len(dip.parts) + 1
        /\ (fs.exists /\ ~fs'.exists) => run.pc = "remove"
      ]_vars

C12_Witness ==
    /\ run.pc = "new"
    /\ run.i = 2
    /\ run.step = Len(PartSteps)
    /\ Len(dip.parts) = 2

\* C13 as claimed: the METS document a part's technical metadata is read from
\* is the one of the package the part came from (mets_location in the
\* package's directory), and it is searched for the part's own identifier.
C13_TechmdFromOwnPackage ==
    xmlDoc # <<>> =>
        /\ xmlDoc.path = Join(dip.dip_location, dip.mets_location)
        /\ (run.pc = "new" /\ PartSteps[run.step] = "add_mods_metadata")
              => hash = dip.parts[run.i].uuid

\* C14: for a record whose section lacks premis:fixity, get_checksum ends in
\* an error, and for one whose section lacks premis:formatDesignation (or the
\* whole premis:format), get_format_designation ends in an error; what either
\* returns is never a default: it is the pair of texts the section holds.
C14_MissingFieldIsAnError ==
    record.state = "constructed" =>
        LET om == record.self.original_metadata IN
        /\ (call.op = "get_checksum" /\ ~Has(om.fixity)) => call.err # ""
        /\ (call.op = "get_format_designation"
              /\ (~Has(om.format) \/ ~Has(Get(om.format).formatDesignation)))
              => call.err # ""
        /\ (call.op = "get_checksum" /\ call.err = "") =>
              /\ Has(om.fixity)
              /\ call.val = <<Get(om.fixity).messageDigestAlgorithm,
                              Get(Get(om.fixity).messageDigest)>>
              /\ call.val[1] # <<>> /\ call.val[2] # <<>>
        /\ (call.op = "get_format_designation" /\ call.err = "") =>
              /\ Has(om.format)
              /\ Has(Get(om.format).formatDesignation)
              /\ call.val[1] = Get(Get(om.format).formatDesignation).formatName
              /\ call.val[1] # <<>> /\ call.val[2] # <<>>

C14_Witness ==
    /\ record.state = "constructed"
    /\ call.op = "get_checksum"
    /\ ~Has(record.self.original_metadata.fixity)
    /\ Has(record.self.original_metadata.format)
    /\ call.err = "KeyError"

\* C15 as claimed: a file entry of an "original" group that has @ADMID and a
\* location, and whose section lacks premis:size, makes construction fail: no
\* METSFile is constructed from a document that holds such an entry.
C15_MissingSizeFailsConstruction ==
    mets.state = "constructed" =>
        ~ \E i \in 1..Len(OriginalEntries(contents)) :
              LET e == OriginalEntries(contents)[i] IN
              /\ Has(e.ADMID)
              /\ Has(e.href)
              /\ HasSectionFor(contents, e)
              /\ ~Has(FirstSectionFor(contents, e).size)

\* C16: for a record whose section names a format registry n with key k,
\* get_pronom_link returns "http://nationalarchives.gov.uk/PRONOM/" followed by
\* k when n is exactly "PRONOM", and the empty text for every other n (another
\* case, a trailing blank); the call leaves the record as it was.
C16_PronomLink ==
    /\ [](record.state = "constructed" =>
            LET format == record.self.original_metadata.format IN
            (call.op = "get_pronom_link" /\ Has(format) /\ Has(Get(format).formatRegistry)) =>
                LET n == Get(Get(format).formatRegistry).formatRegistryName
                    k == Get(Get(format).formatRegistry).formatRegistryKey
                IN /\ call.err = ""
                   /\ n = <<"P", "R", "O", "N", "O", "M">> =>
                        call.val = << "h", "t", "t", "p", ":", "/", "/", "n", "a", "t", "i", "o", "n",
                                      "a", "l", "a", "r", "c", "h", "i", "v", "e", "s", ".", "g", "o",
                                      "v", ".", "u", "k", "/", "P", "R", "O", "N", "O", "M", "/" >> \o k
                   /\ n # <<"P", "R", "O", "N", "O", "M">> => call.val = <<>>)
    /\ [][call'.op = "get_pronom_link" => UNCHANGED <<record, all_sections>>]_vars

C16_Witness ==
    /\ record.state = "constructed"
    /\ call.op = "get_pronom_link"
    /\ Has(record.self.original_metadata.format)
    /\ Has(Get(record.self.original_metadata.format).formatRegistry)
    /\ Get(Get(record.self.original_metadata.format).formatRegistry).formatRegistryName
          = <<"P", "R", "O", "N", "O", "M">>
    /\ Len(call.val) = 44

\* C17 as claimed: for a record whose section has premis:format but no
\* premis:formatRegistry, get_format_registry and get_pronom_link do not
\* raise, and get_pronom_link returns the empty text.
C17_NoRegistryIsNotAnError ==
    (/\ record.state = "constructed"
     /\ call.op \in {"get_format_registry", "get_pronom_link"}
     /\ Has(record.self.original_metadata.format)
     /\ ~Has(Get(record.self.original_metadata.format).formatRegistry)) =>
        /\ call.err = ""
        /\ call.op = "get_pronom_link" => call.val = <<>>

\* C18 as claimed: the unit of pretty_total_size is one of B, KiB, MiB, GiB and
\* TiB, the largest whose power of 1024 is at most the byte count (B below
\* 1024, a count of 0 included), and the value rendered is the byte count.
C18_UnitOfPrettySize ==
    mets.state = "constructed" =>
        /\ mets.pretty_total_size.unit \in {"Byte", "KiB", "MiB", "GiB", "TiB"}
        /\ mets.pretty_total_size.bytes = mets.total_size
        /\ mets.total_size < 1024 => mets.pretty_total_size.unit = "Byte"
        /\ mets.total_size \in 1024..(1024 * 1024 - 1) => mets.pretty_total_size.unit = "KiB"

\* C19: whenever DIPPart.new comes to add_mods_metadata, where the metadata dict
\* is handed to MetadataBuilder, the dict has the nine keys title, abstract,
\* date, language, publisher, rights, uuid, original_path and size, provided
\* the dict the compound object was given had the descriptive keys (of which
\* the run itself writes title and date only).
C19_NineKeysAtHandOff ==
    (/\ run.pc = "new"
     /\ PartSteps[run.step] = "add_mods_metadata"
     /\ {"abstract", "language", "publisher", "rights"} \subseteq DOMAIN original_metadata) =>
        /\ {"title", "abstract", "date", "language", "publisher", "rights",
            "uuid", "original_path", "size"} \subseteq DOMAIN original_metadata
        /\ original_metadata["uuid"] = dip.parts[run.i].uuid

C19_Witness ==
    /\ run.pc = "new"
    /\ PartSteps[run.step] = "add_mods_metadata"
    /\ run.i = 2
    /\ "rights" \in DOMAIN original_metadata
    /\ Cardinality(DOMAIN original_metadata) = 9

(***************************************************************************)
(* BornDigitalObject.new, BornDigitalCompoundObject.new and DIPPart.new:   *)
(* each a fixed run of steps; a step sends its requests one after another  *)
(* and raises when a status is not the one it tests for.  job.step is the  *)
(* step in hand and job.req the request of it that comes next.             *)
(***************************************************************************)
Statuses == {200, 201, 500}

\* The statuses with which the repository has done what was asked.
Done == {200, 201}

Kinds == {"BornDigitalObject", "BornDigitalCompoundObject", "DIPPart"}

States == {"A", "I", "D"}

\* The steps of new(), in order, for each class.
NewSteps(kind) ==
    IF kind = "BornDigitalObject" THEN
        << "ingest", "add_to_collection", "assign_binary_content_model",
           "change_versioning", "add_archival_information_package",
           "add_mods_metadata", "add_dissemination_information_package" >>
    ELSE IF kind = "BornDigitalCompoundObject" THEN
        << "ingest", "add_to_collection", "make_compound_object",
           "change_versioning", "add_archival_information_package",
           "add_mods_metadata", "add_dissemination_information_package",
           "add_mets", "process_dip" >>
    ELSE PartSteps

\* A request: whom it is sent to, what it asks for, the statuses its sender
\* takes for success, and whether a file is opened to send it.
Request(to, what, expected, file) ==
    [to |-> to, what |-> what, expected |-> expected, file |-> file]

\* FedoraObject.add_relationship
AddRelationship(what) == Request("repository", what, {200}, FALSE)

\* FedoraObject.add_managed_datastream
AddManagedDatastream(dsid) == Request("repository", dsid, {201}, TRUE)

\* FedoraObject.modify_datastream
ModifyDatastream(dsid) == Request("repository", dsid, {200, 201}, TRUE)

\* GSearchConnection.update: the status is returned and nobody looks at it.
UpdateIndex == Request("index", "updateIndex", Statuses, FALSE)

\* The requests a step sends, in order.
RequestsOf(kind, step, thumbnail) ==
    IF step = "ingest" THEN <<Request("repository", "object", {201}, FALSE)>>
    ELSE IF step = "change_versioning"
        THEN <<Request("repository", "versionable", {200}, FALSE)>>
    ELSE IF step \in {"add_to_collection", "assign_binary_content_model",
                      "make_compound_object", "make_part_of_compound_object",
                      "make_sequence_of_compound_object"}
        THEN <<AddRelationship(step)>>
    ELSE IF step = "add_archival_information_package"
        THEN <<AddManagedDatastream(IF kind = "BornDigitalObject" THEN "OBJ" ELSE "AIP")>>
    ELSE IF step = "add_dissemination_information_package"
        THEN <<AddManagedDatastream("DIP")>>
    ELSE IF step = "add_mets" THEN <<AddManagedDatastream("METS")>>
    ELSE IF step = "do_techmd_things" THEN <<AddManagedDatastream("PREMIS")>>
    ELSE IF step = "add_object_as_obj" THEN <<AddManagedDatastream("OBJ")>>
    ELSE IF step = "add_thumbnail"
        THEN (IF thumbnail THEN <<AddManagedDatastream("TN")>> ELSE <<>>)
    ELSE IF step = "add_mods_metadata"
        THEN (IF kind = "DIPPart"
              THEN <<AddManagedDatastream("MODS"), ModifyDatastream("DC"), UpdateIndex>>
              ELSE <<AddManagedDatastream("MODS"), UpdateIndex>>)
    ELSE <<>>

\* A test that lets every state through.
EveryState == {"A", "I", "D"}

\* The states ingest accepts (line 187).
ValidStates == {"A", "I"}

\* The body of the answer to the ingest request: the new persistent identifier.
NewPid == <<"t", "e", "s", "t", ":", "1">>

\* What ingest hands back to new(): the identifier, when the status was the one
\* it tests for; any other request leaves the identifier new() holds.
PidAfter(j, request, status) ==
    IF request.what = "object" /\ status \in request.expected THEN Some(NewPid)
    ELSE j.pid

\* The request the job is about to send; <<>> when its step sends none (any more).
Pending(j) ==
    LET reqs == RequestsOf(j.kind, NewSteps(j.kind)[j.step], j.thumbnail) IN
    IF j.req <= Len(reqs) THEN <<reqs[j.req]>> ELSE <<>>

\* The job with its request in hand behind it: at the next request of the step,
\* at the next step, or returned after the last step.
Advance(j) ==
    IF j.req < Len(RequestsOf(j.kind, NewSteps(j.kind)[j.step], j.thumbnail))
    THEN [j EXCEPT !.req = j.req + 1]
    ELSE IF j.step < Len(NewSteps(j.kind))
    THEN [j EXCEPT !.step = j.step + 1, !.req = 1]
    ELSE [j EXCEPT !.pc = "returned"]

Failed(j, error) == [j EXCEPT !.pc = "raised", !.error = error]

\* A sender that sends the request again when the status is not the one it
\* tests for.
AfterResponseRetries(j, request, status) ==
    IF status \in request.expected THEN Advance(j) ELSE j

\* What the sender of a request does with the status: return to its caller, or
\* raise Exception, which nothing in new() catches.
AfterResponse(j, request, status) ==
    IF status \in request.expected THEN Advance(j) ELSE Failed(j, "Exception")

Sent(j, request, status) ==
    [step |-> NewSteps(j.kind)[j.step], to |-> request.to, what |-> request.what,
     expected |-> request.expected, status |-> status]

InitNew ==
    /\ \E kind \in Kinds, state \in States, thumbnail \in BOOLEAN :
          /\ thumbnail => kind = "DIPPart"
          /\ job = [kind |-> kind, state |-> state, thumbnail |-> thumbnail,
                    pc |-> "running", step |-> 1, req |-> 1, error |-> "",
                    pid |-> Missing]
    /\ requests = <<>>
    /\ repository = {}
    /\ contents = <<>>
    /\ mets = NoMETSFile("none", "")
    /\ xmlDoc = <<>>
    /\ hash = <<>>
    /\ section = IdleSection
    /\ tarball = <<>>
    /\ fs = <<>>
    /\ dip = <<>>
    /\ run = <<>>
    /\ original_metadata = <<>>
    /\ all_sections = <<>>
    /\ record = <<>>
    /\ call = <<>>
    /\ download = <<>>
    /\ resource = <<>>

\* FedoraObject.ingest, lines 187-191: a state other than "A" and "I" raises
\* before anything is sent.
RejectState ==
    /\ job.pc = "running"
    /\ NewSteps(job.kind)[job.step] = "ingest"
    /\ job.state \notin ValidStates
    /\ job' = Failed(job, "Exception")
    /\ UNCHANGED <<requests, repository, metsVars, sectionVars, dipVars, recordVars, clientVars>>

\* requests.post / requests.put and the test of r.status_code after it.
SendRequest ==
    /\ job.pc = "running"
    /\ Pending(job) # <<>>
    /\ NewSteps(job.kind)[job.step] = "ingest" => job.state \in ValidStates
    /\ \E status \in Statuses :
          /\ requests' = Append(requests, Sent(job, Pending(job)[1], status))
          /\ repository' =
                IF Pending(job)[1].to = "repository" /\ status \in Done
                THEN repository \cup {<<NewSteps(job.kind)[job.step], Pending(job)[1].what>>}
                ELSE repository
          /\ job' = [AfterResponse(job, Pending(job)[1], status)
                       EXCEPT !.pid = PidAfter(job, Pending(job)[1], status)]
    /\ UNCHANGED <<metsVars, sectionVars, dipVars, recordVars, clientVars>>

\* A step that sends nothing: add_ocr, add_thumbnail for a part without one,
\* process_dip when it returns.
PassStep ==
    /\ job.pc = "running"
    /\ RequestsOf(job.kind, NewSteps(job.kind)[job.step], job.thumbnail) = <<>>
    /\ job' = Advance(job)
    /\ UNCHANGED <<requests, repository, metsVars, sectionVars, dipVars, recordVars, clientVars>>

\* A step raises without a request: the file to upload cannot be opened, or
\* process_dip raises.
StepRaises ==
    /\ job.pc = "running"
    /\ \/ Pending(job) # <<>> /\ Pending(job)[1].file
       \/ NewSteps(job.kind)[job.step] = "process_dip"
    /\ job' = Failed(job, "Exception")
    /\ UNCHANGED <<requests, repository, metsVars, sectionVars, dipVars, recordVars, clientVars>>

NextNew ==
    \/ RejectState
    \/ SendRequest
    \/ PassStep
    \/ StepRaises

SpecNew == InitNew /\ [][NextNew]_vars

TemporaryStorages == { <<"/", "t", "m", "p">>, <<"t">> }

StoreDirectories == { <<"o", "b", "j", "e", "c", "t", "_", "1">>, <<"s">> }

PackageUuids == { <<"u", "1">>, <<"u", "2">> }

PackageTypes == { <<"D", "I", "P">>, <<"A", "I", "P">>, <<"t", "r", "a", "n", "s", "f", "e", "r">> }

FullPaths == { <<"/", "g", "/", "c", ".", "7", "z">>, <<"c", ".", "7", "z">> }

\* f"{a}/{b}"
Slash(a, b) == a \o <<"/">> \o b

\* Lines 80-83: the name of the file.
DownloadFilename(uuid, details) ==
    IF details.package_type = <<"D", "I", "P">>
    THEN uuid \o <<".", "t", "a", "r">>
    ELSE LastSegment(details.current_full_path)

\* Lines 89-90: the path given to open().
DownloadTarget(temporary_storage, store_directory, details, filename) ==
    Slash(Slash(Slash(temporary_storage, store_directory), details.package_type), filename)

\* Line 95: the message returned.
DownloadMessage(temporary_storage, store_directory, filename) ==
    <<"W", "r", "o", "t", "e", " ", "p", "a", "c", "k", "a", "g", "e", " ", "t", "o", " ">> \o Slash(Slash(temporary_storage, store_directory), filename)

Downloaded(args, state, error, written, message) ==
    [args |-> args, state |-> state, error |-> error, written |-> written,
     message |-> message]

InitDownload ==
    /\ \E ts \in TemporaryStorages, sd \in StoreDirectories, uuid \in PackageUuids,
          pt \in PackageTypes, fp \in FullPaths, ok \in BOOLEAN, dir \in BOOLEAN :
          download = Downloaded([temporary_storage |-> ts, store_directory |-> sd,
                                 uuid |-> uuid,
                                 details |-> [package_type |-> pt, current_full_path |-> fp],
                                 response_ok |-> ok, directory_exists |-> dir],
                                "none", "", Missing, Missing)
    /\ resource = <<>>
    /\ contents = <<>>
    /\ mets = NoMETSFile("none", "")
    /\ xmlDoc = <<>>
    /\ hash = <<>>
    /\ section = IdleSection
    /\ tarball = <<>>
    /\ fs = <<>>
    /\ dip = <<>>
    /\ run = <<>>
    /\ original_metadata = <<>>
    /\ all_sections = <<>>
    /\ record = <<>>
    /\ call = <<>>
    /\ job = <<>>
    /\ requests = <<>>
    /\ repository = <<>>

\* download_package(uuid, store_directory): raise_for_status raises for an
\* error status, open() for a directory that is not there; else the file is
\* written and the message returned.
CallDownloadPackage ==
    /\ download.state = "none"
    /\ LET a == download.args
           filename == DownloadFilename(a.uuid, a.details)
       IN download' =
            IF ~a.response_ok
            THEN Downloaded(a, "raised", "HTTPError", Missing, Missing)
            ELSE IF ~a.directory_exists
            THEN Downloaded(a, "raised", "FileNotFoundError", Missing, Missing)
            ELSE Downloaded(a, "returned", "",
                            Some(DownloadTarget(a.temporary_storage, a.store_directory,
                                                a.details, filename)),
                            Some(DownloadMessage(a.temporary_storage, a.store_directory,
                                                 filename)))
    /\ UNCHANGED <<resource, metsVars, sectionVars, dipVars, recordVars, newVars>>

NextDownload == CallDownloadPackage

SpecDownload == InitDownload /\ [][NextDownload]_vars

\* C22 as claimed: the path named in the message download_package returns is
\* the path of the file it wrote, for every package type and store_directory.
C22_MessageNamesTheFileWritten ==
    download.state = "returned" =>
        /\ Has(download.written)
        /\ Get(download.message) = <<"W", "r", "o", "t", "e", " ", "p", "a", "c", "k", "a", "g", "e", " ", "t", "o", " ">> \o Get(download.written)

(***************************************************************************)
(* Resource.link_digital_object: an instance that refers to the digital    *)
(* object is appended to the instances of the resource as the server has   *)
(* it, and the record is posted back.                                      *)
(***************************************************************************)
MaxInstances == 2   \* instances a resource has before the call

RepoIds == {2, 3}

ResourceIds == {18, 7}

DigitalObjectIds == {2, 15}

\* The instances a resource may already have.
ExistingInstances ==
    { [instance_type |-> "mixed_materials", is_representative |-> FALSE,
       ref |-> <<"/", "t", "o", "p", "/", "1">>],
      [instance_type |-> "digital_object", is_representative |-> TRUE,
       ref |-> <<"/", "r", "e", "p", "o", "s", "i", "t", "o", "r", "i", "e", "s", "/">> \o <<"2">> \o <<"/", "d", "i", "g", "i", "t", "a", "l", "_", "o", "b", "j", "e", "c", "t", "s", "/">> \o <<"1">>] }

\* Resource.get: the record of the resource, or the error the server answers
\* for a resource it does not have.
StoredResources ==
    {[found |-> TRUE, instances |-> l] : l \in SeqsUpTo(ExistingInstances, MaxInstances)}
        \cup {[found |-> FALSE, instances |-> <<>>]}

\* Lines 300-307: the new instance.
NewInstance(digital_object_id, is_representative) ==
    [instance_type |-> "digital_object", is_representative |-> is_representative,
     ref |-> <<"/", "r", "e", "p", "o", "s", "i", "t", "o", "r", "i", "e", "s", "/">> \o <<"2">> \o <<"/", "d", "i", "g", "i", "t", "a", "l", "_", "o", "b", "j", "e", "c", "t", "s", "/">> \o Str(digital_object_id)]

\* Lines 310-314: the request that posts the record back.
PostBack(repo_id, resource_id, instances) ==
    [url |-> <<"/", "r", "e", "p", "o", "s", "i", "t", "o", "r", "i", "e", "s", "/">> \o Str(repo_id) \o <<"/", "r", "e", "s", "o", "u", "r", "c", "e", "s", "/">> \o Str(resource_id),
     instances |-> instances]

Linked(args, state, error, posted) ==
    [args |-> args, state |-> state, error |-> error, posted |-> posted]

InitLink ==
    /\ \E repo_id \in RepoIds, resource_id \in ResourceIds,
          digital_object_id \in DigitalObjectIds, is_representative \in BOOLEAN,
          stored \in StoredResources :
          resource = Linked([repo_id |-> repo_id, resource_id |-> resource_id,
                             digital_object_id |-> digital_object_id,
                             is_representative |-> is_representative,
                             stored |-> stored],
                            "none", "", Missing)
    /\ download = <<>>
    /\ contents = <<>>
    /\ mets = NoMETSFile("none", "")
    /\ xmlDoc = <<>>
    /\ hash = <<>>
    /\ section = IdleSection
    /\ tarball = <<>>
    /\ fs = <<>>
    /\ dip = <<>>
    /\ run = <<>>
    /\ original_metadata = <<>>
    /\ all_sections = <<>>
    /\ record = <<>>
    /\ call = <<>>
    /\ job = <<>>
    /\ requests = <<>>
    /\ repository = <<>>

\* link_digital_object(repo_id, resource_id, digital_object_id, is_representative)
CallLinkDigitalObject ==
    /\ resource.state = "none"
    /\ LET a == resource.args IN
       resource' =
          IF ~a.stored.found THEN Linked(a, "raised", "KeyError", Missing)
          ELSE Linked(a, "returned", "",
                      Some(PostBack(a.repo_id, a.resource_id,
                                    Append(a.stored.instances,
                                           NewInstance(a.digital_object_id,
                                                       a.is_representative)))))
    /\ UNCHANGED <<download, metsVars, sectionVars, dipVars, recordVars, newVars>>

NextLink == CallLinkDigitalObject

SpecLink == InitLink /\ [][NextLink]_vars

\* C23 as claimed: the instance appended refers to
\* /repositories/<repo_id>/digital_objects/<digital_object_id> for every
\* repo_id, and the instances the resource had come before it, unchanged and in
\* order, in the record posted back.
C23_LinksObjectOfGivenRepository ==
    resource.state = "returned" =>
        LET a == resource.args
            posted == Get(resource.posted).instances
        IN /\ Len(posted) = Len(a.stored.instances) + 1
           /\ SubSeq(posted, 1, Len(a.stored.instances)) = a.stored.instances
           /\ posted[Len(posted)].ref =
                 <<"/", "r", "e", "p", "o", "s", "i", "t", "o", "r", "i", "e", "s", "/">> \o Str(a.repo_id) \o <<"/", "d", "i", "g", "i", "t", "a", "l", "_", "o", "b", "j", "e", "c", "t", "s", "/">> \o Str(a.digital_object_id)

\* C24 as claimed: a part that associate_parts gave an OCR file (key ocr_file)
\* gets an OCR datastream with the content OCRfiles/<ocr_file> of the extracted
\* package when DIPPart.new has run for it, and for a part without an OCR file no
\* OCR datastream is asked for.
C24_OcrDatastreamForAssociatedOcr ==
    \A p \in 1..Len(dip.parts) :
        p < run.i =>
            LET part == dip.parts[p]
                sent == {k \in 1..Len(requests) :
                            requests[k].part = p /\ requests[k].step = "add_ocr"}
            IN /\ Has(part.ocr_file) =>
                    \E k \in sent :
                        /\ requests[k].what = <<"OCR">>
                        /\ requests[k].value =
                              Join(Join(part.location, OcrDir), Get(part.ocr_file))
               /\ ~Has(part.ocr_file) => sent = {}

(***************************************************************************)
(* Packages processed one after another with the default extraction        *)
(* destination: each is constructed on the directory "processing" as the   *)
(* package before it left it, removed by remove_extracted_package or still *)
(* there when the processing ended before that call.                       *)
(***************************************************************************)
OtherPackageName == <<"o", "l", "d">>

OtherMETSName == <<"M", "E", "T", "S", ".", "o">>

NamedPackage(name, top, subdirs) == [name |-> name, files |-> top, dirs |-> subdirs]

\* The archives of the sequence: two with the same top-level directory and
\* different files, one with another top-level directory, one without objects.
SequencePackages ==
    { NamedPackage(PackageName, <<METSName>>,
                   <<Dir(ObjectsDir, <<Uuid1 \o <<"-", "x">>>>),
                     Dir(ThumbnailsDir, <<Uuid1 \o <<".", "j">>>>), Dir(OcrDir, <<>>)>>),
      NamedPackage(PackageName, <<METSName>>,
                   <<Dir(ObjectsDir, <<Uuid2 \o <<"-", "y">>>>),
                     Dir(ThumbnailsDir, <<>>), Dir(OcrDir, <<>>)>>),
      NamedPackage(OtherPackageName, <<OtherMETSName>>,
                   <<Dir(ObjectsDir, <<Uuid1 \o <<"-", "x">>, <<"a">>>>),
                     Dir(ThumbnailsDir, <<>>), Dir(OcrDir, <<>>)>>),
      NamedPackage(OtherPackageName, <<OtherMETSName>>,
                   <<Dir(ThumbnailsDir, <<>>), Dir(OcrDir, <<>>)>>) }

SequenceTarballs == {[kind |-> "tar", package |-> p] : p \in SequencePackages}

\* The orders in which os.walk may list the directories below "processing":
\* the order is the file system's.
Orders(disk) ==
    LET n == Len(disk.packages) IN
    {[exists |-> disk.exists, packages |-> [k \in 1..n |-> disk.packages[q[k]]]] :
        q \in {f \in [1..n -> 1..n] : \A a, b \in 1..n : a # b => f[a] # f[b]}}

InitSequence ==
    /\ tarball \in SequenceTarballs
    /\ fs = NoDirectory
    /\ dip = NoDIP("none", "")
    /\ run = Called("none", "", <<>>, 0)
    /\ original_metadata = <<>>
    /\ contents = <<>>
    /\ mets = NoMETSFile("none", "")
    /\ xmlDoc = <<>>
    /\ hash = <<>>
    /\ section = IdleSection
    /\ all_sections = <<>>
    /\ record = <<>>
    /\ call = <<>>
    /\ job = <<>>
    /\ requests = <<>>
    /\ repository = <<>>
    /\ download = <<>>
    /\ resource = <<>>

\* DisseminationInformationPackage(path) on the directory as it is.
ConstructDIPInSequence ==
    /\ dip.state = "none"
    /\ \E disk \in Orders(ExtractPackage(tarball, fs).val) :
          /\ fs' = disk
          /\ dip' = Classify(tarball, disk)
    /\ run' = Called("construct", dip'.error, <<>>, 0)
    /\ UNCHANGED <<tarball, original_metadata, metsVars, sectionVars, recordVars,
                   newVars, clientVars>>

\* process_dip comes to dip.remove_extracted_package().
CleanupInSequence ==
    /\ dip.state = "constructed"
    /\ fs.exists
    /\ fs' = RmTree(fs).val
    /\ run' = Called("remove_extracted_package", "", <<>>, 1)
    /\ UNCHANGED <<tarball, dip, original_metadata, metsVars, sectionVars, recordVars,
                   newVars, clientVars>>

\* The next package is taken up: the one before it was cleaned up, or its
\* processing ended before the cleanup, or its construction raised.
TakeNextPackage ==
    /\ dip.state \in {"constructed", "raised"}
    /\ tarball' \in SequenceTarballs
    /\ dip' = NoDIP("none", "")
    /\ run' = Called("none", "", <<>>, 0)
    /\ UNCHANGED <<fs, original_metadata, metsVars, sectionVars, recordVars,
                   newVars, clientVars>>

NextSequence ==
    \/ ConstructDIPInSequence
    \/ CleanupInSequence
    \/ TakeNextPackage

SpecSequence == InitSequence /\ [][NextSequence]_vars

\* The files of the directory named name in an archive's top-level directory.
ArchiveFiles(package, name) ==
    UNION {{package.dirs[k].files[f] : f \in 1..Len(package.dirs[k].files)} :
              k \in {d \in 1..Len(package.dirs) : package.dirs[d].name = name}}

\* C25 as claimed: every part of a constructed package names a file of the
\* objects directory of the package's own archive, and name, dip_location and
\* mets_location are those of the archive's top-level directory, whatever was
\* processed before it.
C25_PartsOfOwnArchive ==
    dip.state = "constructed" =>
        /\ \A p \in 1..Len(dip.parts) :
              dip.parts[p].object \in ArchiveFiles(tarball.package, ObjectsDir)
        /\ Len(dip.parts) = Cardinality(ArchiveFiles(tarball.package, ObjectsDir))
        /\ dip.name = tarball.package.name
        /\ dip.dip_location = Join(ExtractLocation, tarball.package.name)
        /\ \E f \in 1..Len(tarball.package.files) :
              dip.mets_location = tarball.package.files[f]

\* C26 as claimed: when process_dip has returned, the compound object's own
\* descriptive metadata has the keys and the values it was given, whatever the
\* number of parts.
C26_OwnMetadataUnchanged ==
    run.pc = "returned" => original_metadata \in DescriptiveMetadata

\* C27: when the MODS record of part k is about to be built, title, uuid,
\* original_path, size and date of the metadata dict are those of part k, none
\* is left from an earlier part.
C27_NoValueOfAnEarlierPart ==
    (/\ run.pc = "new"
     /\ PartSteps[run.step] = "add_mods_metadata") =>
        LET part == dip.parts[run.i] IN
        /\ original_metadata["title"] = part.object
        /\ original_metadata["uuid"] = part.uuid
        /\ original_metadata["original_path"] = Techmd("originalName", part.uuid)
        /\ original_metadata["size"] = Techmd("size", part.uuid)
        /\ original_metadata["date"] = Techmd("dateCreatedByApplication", part.uuid)

\* The second part of a package with two different parts is at the hand-off,
\* the first having written its own values before.
C27_Witness ==
    /\ run.pc = "new"
    /\ PartSteps[run.step] = "add_mods_metadata"
    /\ run.i = 2
    /\ dip.parts[1].uuid # dip.parts[2].uuid
    /\ dip.parts[1].object # dip.parts[2].object

C29_LoneEntryYieldsOneRecord ==
    (/\ mets.state # "none"
     /\ Len(contents.amdSec) >= 2
     /\ Len(contents.fileGrp) >= 2
     /\ Cardinality({k \in 1..Len(contents.fileGrp) :
                        contents.fileGrp[k].USE = "original"}) = 1
     /\ Len(OriginalEntries(contents)) = 1
     /\ Described(contents, OriginalEntries(contents)[1])) =>
        /\ mets.state = "constructed"
        /\ Len(mets.original_files) = 1

\* The requests of one step among those sent so far, in the order sent.
RequestsOfStep(step) == SelectSeq(requests, LAMBDA r : r.step = step)

\* C30: the parts of a package get the sequence numbers 1, 2, ..., n in the
\* order of dip.parts: the k-th isSequenceNumberOf relationship is that of part
\* k and carries the literal str(k), the k-th isConstituentOf relationship is
\* that of part k and names the compound object's pid, the k-th OBJ is the k-th
\* file of dip.parts; no number is skipped or used twice, and a run that
\* returns has numbered every part.
C30_SequenceNumbersInOrder ==
    LET sequence == RequestsOfStep("make_sequence_of_compound_object")
        partOf == RequestsOfStep("make_part_of_compound_object")
        objects == RequestsOfStep("add_object_as_obj")
    IN /\ \A k \in 1..Len(sequence) :
             /\ sequence[k].part = k
             /\ sequence[k].value = Str(k)
             /\ sequence[k].what =
                   <<"i", "s", "S", "e", "q", "u", "e", "n", "c", "e", "N", "u", "m",
                     "b", "e", "r", "O", "f", "t", "e", "s", "t", "_", "1">>
       /\ \A k \in 1..Len(partOf) :
             /\ partOf[k].part = k
             /\ partOf[k].value =
                   <<"i", "n", "f", "o", ":", "f", "e", "d", "o", "r", "a", "/",
                     "t", "e", "s", "t", ":", "1">>
       /\ \A k \in 1..Len(objects) :
             /\ objects[k].part = k
             /\ objects[k].value =
                   Join(Join(dip.parts[k].location, ObjectsDir), dip.parts[k].object)
       /\ Len(sequence) <= Len(partOf)
       /\ Len(partOf) <= Len(sequence) + 1
       /\ run.pc = "loop" => Len(sequence) = run.i - 1
       /\ run.pc = "returned" => Len(sequence) = Len(dip.parts)

\* process_dip has returned from a package of two parts.
C30_Witness ==
    /\ run.pc = "returned"
    /\ Len(dip.parts) = 2
    /\ Len(RequestsOfStep("make_sequence_of_compound_object")) = 2

====
